---- MODULE Spec2Model ----
(***************************************************************************)
(* Feature-class declarations of the Last Mile Durations model: the        *)
(* VehicleType enumeration and the Courier, Delivery and Route feature      *)
(* classes, the catalog they populate when their modules are imported,      *)
(* lookup by name, and the instances built from the declarations.           *)
(***************************************************************************)
EXTENDS FiniteSets, Integers, Sequences, TLC

\* Largest number of entity instances alive at once.
MaxInstances == 3

(***************************************************************************)
(* Declarations, statement by statement, in source order.                  *)
(***************************************************************************)

\* VehicleType with VAN given the value of CAR.
VehicleTypeDeclSharedValue ==
  << [name |-> "CAR",    value |-> "car"],
     [name |-> "MOPED",  value |-> "moped"],
     [name |-> "E_BIKE", value |-> "ebike"],
     [name |-> "VAN",    value |-> "car"] >>

\* VehicleType with E_BIKE given its lowercased name as value.
VehicleTypeDeclNameAsValue ==
  << [name |-> "CAR",    value |-> "car"],
     [name |-> "MOPED",  value |-> "moped"],
     [name |-> "E_BIKE", value |-> "e_bike"],
     [name |-> "VAN",    value |-> "van"] >>

\* class VehicleType(Enum): one entry per member assignment.
VehicleTypeDecl ==
  << [name |-> "CAR",    value |-> "car"],
     [name |-> "MOPED",  value |-> "moped"],
     [name |-> "E_BIKE", value |-> "ebike"],
     [name |-> "VAN",    value |-> "van"] >>

\* Courier with the commented-out courier_outcode_experience field declared.
CourierDeclOutcodeExperience ==
  << [name |-> "courier_uid",                    type |-> "str"],
     [name |-> "courier_transport_vehicle_type", type |-> "VehicleType"],
     [name |-> "courier_experience_level",       type |-> "str"],
     [name |-> "courier_route_index",            type |-> "int"],
     [name |-> "courier_outcode_experience",     type |-> "int"] >>

\* Courier with courier_experience_level annotated twice.
CourierDeclRepeatedField ==
  << [name |-> "courier_uid",                    type |-> "str"],
     [name |-> "courier_transport_vehicle_type", type |-> "VehicleType"],
     [name |-> "courier_experience_level",       type |-> "str"],
     [name |-> "courier_experience_level",       type |-> "str"],
     [name |-> "courier_route_index",            type |-> "int"] >>

\* Courier with an integer identifier.
CourierDeclIntegerUid ==
  << [name |-> "courier_uid",                    type |-> "int"],
     [name |-> "courier_transport_vehicle_type", type |-> "VehicleType"],
     [name |-> "courier_experience_level",       type |-> "str"],
     [name |-> "courier_route_index",            type |-> "int"] >>

\* Courier with the experience level declared as a list of strings.
CourierDeclListField ==
  << [name |-> "courier_uid",                    type |-> "str"],
     [name |-> "courier_transport_vehicle_type", type |-> "VehicleType"],
     [name |-> "courier_experience_level",       type |-> "list[str]"],
     [name |-> "courier_route_index",            type |-> "int"] >>

\* Courier with the vehicle type declared as a plain string.
CourierDeclStringVehicle ==
  << [name |-> "courier_uid",                    type |-> "str"],
     [name |-> "courier_transport_vehicle_type", type |-> "str"],
     [name |-> "courier_experience_level",       type |-> "str"],
     [name |-> "courier_route_index",            type |-> "int"] >>

\* class Courier: one entry per annotated field.
CourierDecl ==
  << [name |-> "courier_uid",                    type |-> "str"],
     [name |-> "courier_transport_vehicle_type", type |-> "VehicleType"],
     [name |-> "courier_experience_level",       type |-> "str"],
     [name |-> "courier_route_index",            type |-> "int"] >>

\* class Delivery: one entry per annotated field.
DeliveryDecl ==
  << [name |-> "shipment_uid",                        type |-> "str"],
     [name |-> "route_uid",                           type |-> "str"],
     [name |-> "attempt_uid",                         type |-> "str"],
     [name |-> "parcel_weight_grams",                 type |-> "float"],
     [name |-> "parcel_dimensions_cm",                type |-> "str"],
     [name |-> "destination_address_contains_flat",   type |-> "bool"],
     [name |-> "building_type_handover_complexity",   type |-> "str"],
     [name |-> "estimated_floor_number",              type |-> "int"],
     [name |-> "delivery_note_safe_place_available",  type |-> "bool"],
     [name |-> "time_of_day",                         type |-> "int"],
     [name |-> "lm_delivery_outcome_at_local",        type |-> "datetime"],
     [name |-> "sequence_number",                     type |-> "int"],
     [name |-> "remaining_parcels_burden",            type |-> "int"],
     [name |-> "destination_postcode",                type |-> "str"],
     [name |-> "destination_outcode",                 type |-> "str"],
     [name |-> "avg_population_density",              type |-> "float"] >>

\* Route with time_of_day declared as a string.
RouteDeclStringHour ==
  << [name |-> "route_uid",                         type |-> "str"],
     [name |-> "composition_total_shipments",       type |-> "int"],
     [name |-> "composition_count_containers",      type |-> "int"],
     [name |-> "composition_count_loose_shipments", type |-> "int"],
     [name |-> "target_start_at_local",             type |-> "datetime"],
     [name |-> "route_date",                        type |-> "str"],
     [name |-> "collection_pitstop_uid",            type |-> "str"],
     [name |-> "collection_pitstop_postcode",       type |-> "str"],
     [name |-> "courier_uid",                       type |-> "str"],
     [name |-> "transport_type",                    type |-> "str"],
     [name |-> "avg_population_density",            type |-> "float"],
     [name |-> "density_tier",                      type |-> "str"],
     [name |-> "time_of_day",                       type |-> "str"] >>

\* class Route: one entry per annotated field.
RouteDecl ==
  << [name |-> "route_uid",                         type |-> "str"],
     [name |-> "composition_total_shipments",       type |-> "int"],
     [name |-> "composition_count_containers",      type |-> "int"],
     [name |-> "composition_count_loose_shipments", type |-> "int"],
     [name |-> "target_start_at_local",             type |-> "datetime"],
     [name |-> "route_date",                        type |-> "str"],
     [name |-> "collection_pitstop_uid",            type |-> "str"],
     [name |-> "collection_pitstop_postcode",       type |-> "str"],
     [name |-> "courier_uid",                       type |-> "str"],
     [name |-> "transport_type",                    type |-> "str"],
     [name |-> "avg_population_density",            type |-> "float"],
     [name |-> "density_tier",                      type |-> "str"],
     [name |-> "time_of_day",                       type |-> "int"] >>

\* The class statements: the name bound, the annotated fields of the body and
\* the constraints the body enforces on construction (the bodies define no
\* validator, so the sets are empty).
CourierClass ==
  [name |-> "Courier", decl |-> CourierDecl, checks |-> {}]

\* Delivery with the documented hour range enforced on construction.
DeliveryClassHourChecked ==
  [name |-> "Delivery", decl |-> DeliveryDecl,
   checks |-> {[field |-> "time_of_day", lo |-> 0, hi |-> 23]}]

DeliveryClass ==
  [name |-> "Delivery", decl |-> DeliveryDecl, checks |-> {}]

\* Route declared under the name of the Delivery class.
RouteClassNamedDelivery ==
  [name |-> "Delivery", decl |-> RouteDecl, checks |-> {}]

RouteClass ==
  [name |-> "Route", decl |-> RouteDecl, checks |-> {}]

\* The name the enumeration class is bound to.
VehicleTypeName == "VehicleType"

(***************************************************************************)
(* Language semantics the declarations rely on.                            *)
(***************************************************************************)

\* The entries of seq at the indices in keep, from index i on, in order.
RECURSIVE Filter(_, _, _)
Filter(seq, keep, i) ==
  IF i > Len(seq) THEN << >>
  ELSE (IF i \in keep THEN << seq[i] >> ELSE << >>) \o Filter(seq, keep, i + 1)

\* Enum class creation: a member assignment whose value was already given to
\* an earlier member makes an alias, not a new member.
EnumMembers(decl) ==
  LET first == { i \in 1..Len(decl) :
                   \A j \in 1..(i - 1) : decl[j].value # decl[i].value }
  IN  Filter(decl, first, 1)

\* Class body execution: the annotations form an insertion-ordered mapping, a
\* repeated name keeps its first position and takes the last type.
Annotations(decl) ==
  LET first    == { i \in 1..Len(decl) :
                      \A j \in 1..(i - 1) : decl[j].name # decl[i].name }
      Last(n)  == CHOOSE j \in 1..Len(decl) :
                    /\ decl[j].name = n
                    /\ \A k \in (j + 1)..Len(decl) : decl[k].name # n
      firsts   == Filter(decl, first, 1)
  IN  [i \in 1..Len(firsts) |->
         [name |-> firsts[i].name, type |-> decl[Last(firsts[i].name)].type]]

\* The names of a field list.
FieldNames(fields) == { fields[i].name : i \in 1..Len(fields) }

\* The declared type of a named field of a field list.
FieldType(fields, n) ==
  fields[CHOOSE i \in 1..Len(fields) : fields[i].name = n].type

\* member.value
Value(m) == m.value

\* VehicleType(s): the member whose value is s, ValueError when none is.
Decode(members, s) ==
  IF \E i \in 1..Len(members) : members[i].value = s
  THEN [ok |-> TRUE,
        value |-> members[CHOOSE i \in 1..Len(members) : members[i].value = s]]
  ELSE [ok |-> FALSE, value |-> "ValueError"]

\* The semantic types a declaration can present to the platform.
SemanticTypes ==
  {"string", "integer", "floating-point", "boolean", "timestamp", "enumeration"}

\* The semantic type of an annotation: the builtin scalars, datetime, and any
\* enumeration class whose members all carry string values; a container or a
\* feature class is none of them.
SemanticType(t, enumTable) ==
  CASE t = "str"      -> "string"
    [] t = "int"      -> "integer"
    [] t = "float"    -> "floating-point"
    [] t = "bool"     -> "boolean"
    [] t = "datetime" -> "timestamp"
    [] t \in DOMAIN enumTable -> "enumeration"
    [] OTHER          -> "unsupported"

(***************************************************************************)
(* Values.  A float is written in thousandths and a datetime in epoch       *)
(* seconds, each tagged with its type, so that 3 and 3.0 stay distinct.     *)
(***************************************************************************)

Float(milli) == [kind |-> "float", milli |-> milli]

Datetime(epoch) == [kind |-> "datetime", epoch |-> epoch]

\* The values of each annotation type that the model draws inputs from.
ValuesOfType(t, enumTable) ==
  CASE t = "str"      -> {"C1", "R1", "R2", "novice", "x"}
    [] t = "int"      -> {-1, 0, 1, 2, 3, 23, 24, 101}
    [] t = "float"    -> {Float(1500)}
    [] t = "bool"     -> BOOLEAN
    [] t = "datetime" -> {Datetime(1700000000)}
    [] t \in DOMAIN enumTable ->
         {enumTable[t][i] : i \in 1..Len(enumTable[t])}
    [] OTHER          -> {}

\* The inputs tried for one field: the fields the documented conventions
\* speak of take values inside and outside the convention, any other field
\* one value of its type.
InputValues(entity, f, t, enumTable) ==
  CASE f = "time_of_day"                  -> IF entity = "Route" THEN {0, 24}
                                                                 ELSE {-1, 23}
    [] f = "courier_route_index"          -> {3, 101}
    [] f = "composition_total_shipments"  -> {0, 2}
    [] f = "route_uid"                    -> IF entity = "Route" THEN {"R1"}
                                                                 ELSE {"R1", "R2"}
    [] f = "courier_uid"                  -> {"C1"}
    [] f = "courier_experience_level"     -> {"novice"}
    [] t = "str"                          -> {"x"}
    [] t = "int"                          -> {1}
    [] t = "bool"                         -> {TRUE}
    [] OTHER                              -> ValuesOfType(t, enumTable)

\* Every keyword-argument mapping that gives each field of the list one of
\* its input values.
RECURSIVE Assignments(_, _, _, _)
Assignments(entity, fields, i, enumTable) ==
  IF i > Len(fields) THEN { << >> }
  ELSE LET rest == Assignments(entity, fields, i + 1, enumTable)
           vals == InputValues(entity, fields[i].name, fields[i].type, enumTable)
       IN  { (fields[i].name :> v) @@ r : v \in vals, r \in rest }

\* Raw courier records as they arrive: the vehicle type is a wire string.
WireInputs == {"car", "moped", "ebike", "van", "e_bike"}

RawCouriers ==
  { [courier_uid |-> "C1",
     courier_transport_vehicle_type |-> w,
     courier_experience_level |-> "novice",
     courier_route_index |-> n] : w \in WireInputs, n \in {3, 101} }

\* Names asked of the catalog.
LookupNames == {"Courier", "Delivery", "Route", "VehicleType", "Parcel"}

(***************************************************************************)
(* State.                                                                  *)
(***************************************************************************)
VARIABLES
  loaded,     \* the modules imported so far
  catalog,    \* class name -> [fields, checks] of each feature class defined
  enums,      \* class name -> members of each enumeration defined
  instances,  \* the entity instances alive
  call        \* the last operation: [op, arg, ret]

vars == << loaded, catalog, enums, instances, call >>

Ok(v) == [ok |-> TRUE, value |-> v]

Err(e) == [ok |-> FALSE, value |-> e]

Init ==
  /\ loaded = {}
  /\ catalog = << >>
  /\ enums = << >>
  /\ instances = {}
  /\ call = [op |-> "start", arg |-> "", ret |-> Ok("")]

\* Executing a class statement binds the name to the new class; an earlier
\* binding of the same name is replaced.
Register(table, name, entry) ==
  [n \in DOMAIN table \cup {name} |-> IF n = name THEN entry ELSE table[n]]

\* What a feature class holds once its body has run.
ClassEntry(cls) ==
  [fields |-> Annotations(cls.decl), checks |-> cls.checks]

\* import features.courier_features
ImportCourierFeatures ==
  /\ "courier_features" \notin loaded
  /\ loaded' = loaded \cup {"courier_features"}
  /\ enums' = Register(enums, VehicleTypeName, EnumMembers(VehicleTypeDecl))
  /\ catalog' = Register(catalog, CourierClass.name, ClassEntry(CourierClass))
  /\ call' = [op |-> "import", arg |-> "courier_features", ret |-> Ok("")]
  /\ UNCHANGED instances

\* import features.delivery_features
ImportDeliveryFeatures ==
  /\ "delivery_features" \notin loaded
  /\ loaded' = loaded \cup {"delivery_features"}
  /\ catalog' = Register(catalog, DeliveryClass.name, ClassEntry(DeliveryClass))
  /\ call' = [op |-> "import", arg |-> "delivery_features", ret |-> Ok("")]
  /\ UNCHANGED << enums, instances >>

\* import features.route_features
ImportRouteFeatures ==
  /\ "route_features" \notin loaded
  /\ loaded' = loaded \cup {"route_features"}
  /\ catalog' = Register(catalog, RouteClass.name, ClassEntry(RouteClass))
  /\ call' = [op |-> "import", arg |-> "route_features", ret |-> Ok("")]
  /\ UNCHANGED << enums, instances >>

\* Lookup by name: the class or enumeration bound to the name.
Lookup(name) ==
  /\ call' = [op |-> "lookup", arg |-> name,
              ret |-> IF name \in DOMAIN catalog THEN Ok(catalog[name].fields)
                      ELSE IF name \in DOMAIN enums THEN Ok(enums[name])
                      ELSE Err("NameError")]
  /\ UNCHANGED << loaded, catalog, enums, instances >>

\* The constraints of a class that a keyword-argument mapping satisfies.
Passes(checks, kwargs) ==
  \A c \in checks : kwargs[c.field] >= c.lo /\ kwargs[c.field] <= c.hi

\* The result of calling a class with keyword arguments.
New(name, kwargs) ==
  IF Passes(catalog[name].checks, kwargs)
  THEN Ok([entity |-> name, fields |-> kwargs])
  ELSE Err("ValueError")

\* Entity(**kwargs): an instance of a feature class.
Construct(name, kwargs) ==
  /\ name \in DOMAIN catalog
  /\ Cardinality(instances) < MaxInstances
  /\ LET r == New(name, kwargs)
     IN  /\ call' = [op |-> "construct",
                     arg |-> [entity |-> name, kwargs |-> kwargs], ret |-> r]
         /\ instances' = IF r.ok THEN instances \cup {r.value} ELSE instances
  /\ UNCHANGED << loaded, catalog, enums >>

\* The loader's conversion of one raw field to the declared type: a string
\* to the member of the enumeration, anything else as it is.
Convert(field, raw) ==
  IF field.name \notin DOMAIN raw THEN Err("KeyError")
  ELSE IF field.type \in DOMAIN enums
       THEN Decode(enums[field.type], raw[field.name])
       ELSE Ok(raw[field.name])

\* Loading a raw courier record: convert every declared field, then build
\* the instance.
LoadCourier(raw) ==
  /\ CourierClass.name \in DOMAIN catalog
  /\ Cardinality(instances) < MaxInstances
  /\ LET fields == catalog[CourierClass.name].fields
         conv   == [i \in 1..Len(fields) |-> Convert(fields[i], raw)]
         r      == IF \E i \in 1..Len(fields) : ~conv[i].ok
                   THEN conv[CHOOSE i \in 1..Len(fields) :
                               /\ ~conv[i].ok
                               /\ \A j \in 1..(i - 1) : conv[j].ok]
                   ELSE New(CourierClass.name,
                            [n \in FieldNames(fields) |->
                               conv[CHOOSE i \in 1..Len(fields) :
                                      fields[i].name = n].value])
     IN  /\ call' = [op |-> "load", arg |-> raw, ret |-> r]
         /\ instances' = IF r.ok THEN instances \cup {r.value} ELSE instances
  /\ UNCHANGED << loaded, catalog, enums >>

\* An instance is dropped.
Discard(inst) ==
  /\ inst \in instances
  /\ instances' = instances \ {inst}
  /\ call' = [op |-> "discard", arg |-> inst, ret |-> Ok("")]
  /\ UNCHANGED << loaded, catalog, enums >>

Next ==
  \/ ImportCourierFeatures
  \/ ImportDeliveryFeatures
  \/ ImportRouteFeatures
  \/ \E name \in LookupNames : Lookup(name)
  \/ \E name \in DOMAIN catalog :
       \E kwargs \in Assignments(name, catalog[name].fields, 1, enums) :
         Construct(name, kwargs)
  \/ \E raw \in RawCouriers : LoadCourier(raw)
  \/ \E inst \in instances : Discard(inst)

Spec == Init /\ [][Next]_vars

(***************************************************************************)
(* Properties.                                                             *)
(***************************************************************************)

AllLoaded == loaded = {"courier_features", "delivery_features", "route_features"}

VehicleField == "courier_transport_vehicle_type"

WireStrings == {"car", "moped", "ebike", "van"}

\* The members of an enumeration as a set.
MemberSet(members) == { members[i] : i \in 1..Len(members) }

\* C1: once defined, VehicleType has exactly the four members CAR, MOPED,
\* E_BIKE, VAN, their values are exactly "car", "moped", "ebike", "van", and
\* no two members share a value.
C1_VehicleTypeMembers ==
  VehicleTypeName \in DOMAIN enums =>
    LET m == enums[VehicleTypeName]
    IN  /\ Len(m) = 4
        /\ { << m[i].name, Value(m[i]) >> : i \in 1..Len(m) } =
             { << "CAR", "car" >>, << "MOPED", "moped" >>,
               << "E_BIKE", "ebike" >>, << "VAN", "van" >> }
        /\ \A i, j \in 1..Len(m) : i # j => Value(m[i]) # Value(m[j])

\* VehicleType is defined and has just been looked up.
C1_Witness ==
  /\ VehicleTypeName \in DOMAIN enums
  /\ call.op = "lookup" /\ call.arg = VehicleTypeName /\ call.ret.ok
  /\ Len(call.ret.value) = 4

\* The courier instance a load of a raw record with one of the four wire
\* strings returns: it exists, has n fields, every field but the vehicle type
\* equals the raw value, and the vehicle type is the member with that value.
LoadedVerbatim(n) ==
  (call.op = "load" /\ call.arg[VehicleField] \in WireStrings) =>
    /\ call.ret.ok
    /\ LET inst == call.ret.value
       IN  /\ inst.entity = "Courier"
           /\ inst \in instances
           /\ Cardinality(DOMAIN inst.fields) = n
           /\ \A f \in DOMAIN call.arg \ {VehicleField} :
                f \in DOMAIN inst.fields /\ inst.fields[f] = call.arg[f]
           /\ VehicleField \in DOMAIN inst.fields
           /\ inst.fields[VehicleField] \in MemberSet(enums[VehicleTypeName])
           /\ Value(inst.fields[VehicleField]) = call.arg[VehicleField]
           /\ call.arg[VehicleField] = "moped" =>
                inst.fields[VehicleField].name = "MOPED"

\* C2 as stated: loading a raw courier record whose vehicle type is one of
\* the four wire strings yields a Courier instance whose five fields equal
\* the inputs, the vehicle type resolved to the member with that value.
C2_FiveFieldsVerbatim == LoadedVerbatim(5)

\* C2 amended: loading a raw courier record whose vehicle type is one of the
\* four wire strings yields a Courier instance whose four fields equal the
\* inputs, the vehicle type resolved to the member with that value.
C2_FourFieldsVerbatim ==
  /\ LoadedVerbatim(4)
  /\ (call.op = "load" /\ call.ret.ok) =>
       DOMAIN call.ret.value.fields = DOMAIN call.arg

\* The raw record {C1, "moped", "novice", 3} has been loaded.
C2_Witness ==
  /\ call.op = "load"
  /\ call.arg = [courier_uid |-> "C1", courier_transport_vehicle_type |-> "moped",
                 courier_experience_level |-> "novice", courier_route_index |-> 3]
  /\ call.ret.ok
  /\ call.ret.value.fields[VehicleField].name = "MOPED"
  /\ call.ret.value.fields["courier_route_index"] = 3

\* C3: each entity defined declares at least one field and no field name
\* twice: no annotation of the class body repeats a name, so the field list
\* has one entry for each.
C3_FieldNamesDistinct ==
  \A cls \in {CourierClass, DeliveryClass, RouteClass} :
    cls.name \in DOMAIN catalog =>
      LET fields == catalog[cls.name].fields
      IN  /\ Len(fields) > 0
          /\ \A i, j \in 1..Len(fields) :
               i # j => fields[i].name # fields[j].name
          /\ \A i, j \in 1..Len(cls.decl) :
               i # j => cls.decl[i].name # cls.decl[j].name
          /\ Len(fields) = Len(cls.decl)

\* The three entities are defined with 4, 16 and 13 distinct field names.
C3_Witness ==
  /\ AllLoaded
  /\ Cardinality(FieldNames(catalog["Courier"].fields)) = 4
  /\ Cardinality(FieldNames(catalog["Delivery"].fields)) = 16
  /\ Cardinality(FieldNames(catalog["Route"].fields)) = 13

\* s ends with suffix.
EndsWith(s, suffix) ==
  /\ Len(s) >= Len(suffix)
  /\ SubSeq(s, Len(s) - Len(suffix) + 1, Len(s)) = suffix

\* The names of a field list that end in _uid.
UidFields(fields) == { n \in FieldNames(fields) : EndsWith(n, "_uid") }

\* C4: every field whose name ends in _uid is declared a string; these are
\* courier_uid of Courier, shipment_uid, route_uid and attempt_uid of
\* Delivery, route_uid, collection_pitstop_uid and courier_uid of Route, so
\* both ends of Delivery.route_uid -> Route.route_uid and of
\* Route.courier_uid -> Courier.courier_uid have the same declared type.
C4_UidFieldsAreStrings ==
  /\ \A n \in DOMAIN catalog :
       \A f \in UidFields(catalog[n].fields) :
         FieldType(catalog[n].fields, f) = "str"
  /\ "Courier" \in DOMAIN catalog =>
       UidFields(catalog["Courier"].fields) = {"courier_uid"}
  /\ "Delivery" \in DOMAIN catalog =>
       UidFields(catalog["Delivery"].fields) =
         {"shipment_uid", "route_uid", "attempt_uid"}
  /\ "Route" \in DOMAIN catalog =>
       UidFields(catalog["Route"].fields) =
         {"route_uid", "collection_pitstop_uid", "courier_uid"}
  /\ {"Delivery", "Route"} \subseteq DOMAIN catalog =>
       FieldType(catalog["Delivery"].fields, "route_uid") =
         FieldType(catalog["Route"].fields, "route_uid")
  /\ {"Route", "Courier"} \subseteq DOMAIN catalog =>
       FieldType(catalog["Route"].fields, "courier_uid") =
         FieldType(catalog["Courier"].fields, "courier_uid")

\* All three entities are defined, seven fields end in _uid, and a Route and
\* a Delivery carrying the same route_uid exist.
C4_Witness ==
  /\ AllLoaded
  /\ Cardinality(UidFields(catalog["Courier"].fields)) +
     Cardinality(UidFields(catalog["Delivery"].fields)) +
     Cardinality(UidFields(catalog["Route"].fields)) = 7
  /\ \E r, d \in instances :
       /\ r.entity = "Route" /\ d.entity = "Delivery"
       /\ r.fields["route_uid"] = d.fields["route_uid"]

\* The instance gives every declared field, and nothing else, a value of the
\* declared type.
TypeCorrect(inst) ==
  LET fields == catalog[inst.entity].fields
  IN  /\ DOMAIN inst.fields = FieldNames(fields)
      /\ \A i \in 1..Len(fields) :
           inst.fields[fields[i].name] \in ValuesOfType(fields[i].type, enums)

\* C5: the declarations enforce no domain constraint: no class defined
\* carries a check, and constructing an entity from any tried assignment of
\* type-correct values returns an instance holding exactly those values.
C5_NoDomainConstraint ==
  /\ \A n \in DOMAIN catalog : catalog[n].checks = {}
  /\ call.op = "construct" =>
       /\ call.ret.ok
       /\ call.ret.value =
            [entity |-> call.arg.entity, fields |-> call.arg.kwargs]
       /\ call.ret.value \in instances

\* Three type-correct instances outside the documented conventions exist at
\* once: a Route with fewer total shipments than containers plus loose
\* shipments and an hour outside 0..23, a Delivery with an hour outside 0..23
\* whose route_uid matches no Route, and a Courier with a route index above
\* 100.
C5_Witness ==
  /\ call.op = "construct"
  /\ \E r, d, c \in instances :
       /\ r.entity = "Route" /\ d.entity = "Delivery" /\ c.entity = "Courier"
       /\ TypeCorrect(r) /\ TypeCorrect(d) /\ TypeCorrect(c)
       /\ r.fields["composition_total_shipments"] <
            r.fields["composition_count_containers"] +
            r.fields["composition_count_loose_shipments"]
       /\ r.fields["time_of_day"] \notin 0..23
       /\ d.fields["time_of_day"] \notin 0..23
       /\ \A x \in instances :
            x.entity = "Route" => x.fields["route_uid"] # d.fields["route_uid"]
       /\ c.fields["courier_route_index"] > 100

\* C6: every field of every entity defined has a declared type among string,
\* integer, floating-point, boolean, timestamp and enumeration of strings;
\* none is a feature class or a collection.
C6_FlatScalarFields ==
  \A n \in DOMAIN catalog :
    \A i \in 1..Len(catalog[n].fields) :
      LET t == catalog[n].fields[i].type
      IN  /\ SemanticType(t, enums) \in SemanticTypes
          /\ t \notin DOMAIN catalog
          /\ t \in DOMAIN enums =>
               \A m \in MemberSet(enums[t]) : Value(m) \in WireStrings

\* All three entities are defined and their 33 fields use all six semantic
\* types.
C6_Witness ==
  /\ AllLoaded
  /\ UNION { { SemanticType(catalog[n].fields[i].type, enums) :
                 i \in 1..Len(catalog[n].fields) } : n \in DOMAIN catalog }
       = SemanticTypes
  /\ Len(catalog["Courier"].fields) + Len(catalog["Delivery"].fields) +
       Len(catalog["Route"].fields) = 33

\* C7: time_of_day is declared in Delivery and in Route, in both as an
\* integer.
C7_TimeOfDayInteger ==
  \A n \in {"Delivery", "Route"} :
    n \in DOMAIN catalog =>
      /\ "time_of_day" \in FieldNames(catalog[n].fields)
      /\ FieldType(catalog[n].fields, "time_of_day") = "int"

\* Delivery and Route are defined and an instance of each holds an hour,
\* one of them outside 0..23.
C7_Witness ==
  /\ {"Delivery", "Route"} \subseteq DOMAIN catalog
  /\ \E r, d \in instances :
       /\ r.entity = "Route" /\ d.entity = "Delivery"
       /\ r.fields["time_of_day"] = 24
       /\ d.fields["time_of_day"] = 23

\* C8: the class names are pairwise distinct; with every module imported the
\* catalog holds exactly Courier, Delivery and Route and the enumerations
\* exactly VehicleType; a class or enumeration once defined stays as it is
\* in every later state, and a lookup changes neither.
C8_CatalogFixed ==
  /\ [](/\ Cardinality({CourierClass.name, DeliveryClass.name,
                        RouteClass.name}) = 3
        /\ AllLoaded =>
             /\ DOMAIN catalog = {"Courier", "Delivery", "Route"}
             /\ DOMAIN enums = {"VehicleType"})
  /\ [][/\ \A n \in DOMAIN catalog :
            n \in DOMAIN catalog' /\ catalog'[n] = catalog[n]
        /\ \A n \in DOMAIN enums :
            n \in DOMAIN enums' /\ enums'[n] = enums[n]
        /\ AllLoaded => (catalog' = catalog /\ enums' = enums)
        /\ call'.op = "lookup" => (catalog' = catalog /\ enums' = enums)]_vars

\* Every module is imported and Route has just been looked up.
C8_Witness ==
  /\ AllLoaded
  /\ call.op = "lookup" /\ call.arg = "Route" /\ call.ret.ok
  /\ call.ret.value = catalog["Route"].fields

\* The data model as written down: field names with their semantic types, in
\* order.
DataModelCourier ==
  << << "courier_uid", "string" >>,
     << "courier_transport_vehicle_type", "enumeration" >>,
     << "courier_experience_level", "string" >>,
     << "courier_route_index", "integer" >> >>

DataModelDelivery ==
  << << "shipment_uid", "string" >>,
     << "route_uid", "string" >>,
     << "attempt_uid", "string" >>,
     << "parcel_weight_grams", "floating-point" >>,
     << "parcel_dimensions_cm", "string" >>,
     << "destination_address_contains_flat", "boolean" >>,
     << "building_type_handover_complexity", "string" >>,
     << "estimated_floor_number", "integer" >>,
     << "delivery_note_safe_place_available", "boolean" >>,
     << "time_of_day", "integer" >>,
     << "lm_delivery_outcome_at_local", "timestamp" >>,
     << "sequence_number", "integer" >>,
     << "remaining_parcels_burden", "integer" >>,
     << "destination_postcode", "string" >>,
     << "destination_outcode", "string" >>,
     << "avg_population_density", "floating-point" >> >>

DataModelRoute ==
  << << "route_uid", "string" >>,
     << "composition_total_shipments", "integer" >>,
     << "composition_count_containers", "integer" >>,
     << "composition_count_loose_shipments", "integer" >>,
     << "target_start_at_local", "timestamp" >>,
     << "route_date", "string" >>,
     << "collection_pitstop_uid", "string" >>,
     << "collection_pitstop_postcode", "string" >>,
     << "courier_uid", "string" >>,
     << "transport_type", "string" >>,
     << "avg_population_density", "floating-point" >>,
     << "density_tier", "string" >>,
     << "time_of_day", "integer" >> >>

\* The field list of a class defined, as (name, semantic type) pairs.
Declared(n) ==
  [i \in 1..Len(catalog[n].fields) |->
     << catalog[n].fields[i].name,
        SemanticType(catalog[n].fields[i].type, enums) >>]

\* C9: the ordered (name, type) list of each entity defined is that of the
\* data model: 4 fields for Courier with the vehicle type a VehicleType, 16
\* for Delivery, 13 for Route with transport_type a plain string, and
\* avg_population_density a float in both Delivery and Route.
C9_FieldListsMatchDataModel ==
  /\ "Courier" \in DOMAIN catalog =>
       /\ Declared("Courier") = DataModelCourier
       /\ Len(catalog["Courier"].fields) = 4
       /\ FieldType(catalog["Courier"].fields, VehicleField) = "VehicleType"
  /\ "Delivery" \in DOMAIN catalog =>
       /\ Declared("Delivery") = DataModelDelivery
       /\ Len(catalog["Delivery"].fields) = 16
       /\ FieldType(catalog["Delivery"].fields, "avg_population_density") = "float"
  /\ "Route" \in DOMAIN catalog =>
       /\ Declared("Route") = DataModelRoute
       /\ Len(catalog["Route"].fields) = 13
       /\ FieldType(catalog["Route"].fields, "transport_type") = "str"
       /\ FieldType(catalog["Route"].fields, "avg_population_density") = "float"

\* Every module is imported and Delivery, the longest list, has just been
\* looked up.
C9_Witness ==
  /\ AllLoaded
  /\ call.op = "lookup" /\ call.arg = "Delivery" /\ call.ret.ok
  /\ Len(call.ret.value) = 16

\* Strings that are not wire strings.
OtherStrings == {"e_bike", "E_BIKE", "CAR", "Van", "bike", ""}

\* C10: decoding and encoding VehicleType by value are inverse on the four
\* members and the four wire strings, every other string decodes to no
\* member, and a load succeeds exactly on the four wire strings.
C10_ValueBijection ==
  VehicleTypeName \in DOMAIN enums =>
    LET members == enums[VehicleTypeName]
    IN  /\ \A m \in MemberSet(members) :
             Decode(members, Value(m)) = Ok(m)
        /\ \A w \in WireStrings :
             /\ Decode(members, w).ok
             /\ Value(Decode(members, w).value) = w
        /\ { Value(m) : m \in MemberSet(members) } = WireStrings
        /\ Cardinality(MemberSet(members)) = Cardinality(WireStrings)
        /\ \A o \in OtherStrings : ~Decode(members, o).ok
        /\ call.op = "load" =>
             (call.ret.ok <=> call.arg[VehicleField] \in WireStrings)

\* A raw record carrying "e_bike" was refused while a Courier loaded from
\* "ebike" exists.
C10_Witness ==
  /\ call.op = "load" /\ call.arg[VehicleField] = "e_bike"
  /\ ~call.ret.ok /\ call.ret.value = "ValueError"
  /\ \E c \in instances :
       /\ c.entity = "Courier"
       /\ c.fields[VehicleField] = [name |-> "E_BIKE", value |-> "ebike"]

====
